---- MODULE Spec2Model ----
(***************************************************************************)
(* PandasApiMergeFunction                                                  *)
(* (src/pylegend/core/tds/pandas_api/frames/functions/merge.py).           *)
(*                                                                         *)
(* The state is one merge function object (the fields __init__ assigns)    *)
(* together with the outcome of the last method called on it.  Every       *)
(* method is a pure computation over these fields; an action is one call   *)
(* of a method and records what the call returned or raised.               *)
(*                                                                         *)
(* Column names, key names, suffixes and messages are strings (\o is       *)
(* Python's +).  `how` is a sequence of one-character strings, so that     *)
(* str.lower() is computed character by character.                         *)
(***************************************************************************)
EXTENDS Integers, Sequences, FiniteSets, TLC

\* ------------------------------------------------------------------ bounds

\* Most columns a frame of the model has.
MaxCols == 2

\* Longest key list of the key arguments enumerated in full (KeyArgs).
MaxKeys == 2

\* The most columns of a merged frame that is merged again.
MaxChainCols == 3

\* ----------------------------------------------------------- Python values

None == [tag |-> "None"]

Str(s) == [tag |-> "str", s |-> s]

List(xs) == [tag |-> "list", items |-> xs]

Tuple(xs) == [tag |-> "tuple", items |-> xs]

\* What a call does: it returns a value or raises an exception.
Ok(v) == [kind |-> "ok", value |-> v]

Raise(exc, msg) == [kind |-> "raise", exc |-> exc, msg |-> msg]

\* set(xs) of a list.
Range(xs) == {xs[i] : i \in DOMAIN xs}

\* The string a sequence of characters spells.
RECURSIVE str(_)
str(cs) == IF cs = <<>> THEN "" ELSE Head(cs) \o str(Tail(cs))

\* Every list that enumerates the set S once: what list(S) can return, the
\* iteration order of a set of strings being that of their (seeded) hashes.
list_of_set(S) ==
    {f \in [1..Cardinality(S) -> S] : \A i, j \in 1..Cardinality(S) : f[i] = f[j] => i = j}

\* obj[i] for a tuple, a list or None.
subscript(obj, i) ==
    IF obj.tag = "None"
    THEN Raise("TypeError", "'NoneType' object is not subscriptable")
    ELSE IF i >= Len(obj.items)
         THEN Raise("IndexError", obj.tag \o " index out of range")
         ELSE Ok(obj.items[i + 1])

\* ------------------------------------------------------------ collaborators

TdsColumn(name, type) == [name |-> name, type |-> type]

get_name(c) == c.name

get_type(c) == c.type

copy(c) == TdsColumn(c.name, c.type)

\* An input frame: its ordered columns and the table its query reads. A merged
\* frame (MergedFrame) has, besides, the plan and the program of the merge
\* function it applies.
Frame(table, cols) == [table |-> table, cols |-> cols]

is_merged(frame) == "query" \in DOMAIN frame

columns(frame) == frame.cols

\* --------------------------------------------------------------- the object

\* The fields of the merge function; other_is_base, whether its two frame
\* fields refer to one frame object (records have no identity of their own);
\* set_order, the order in which this process
\* iterates the set of the common column names (fixed by the string hashes of
\* the process); op and result, the last call made and what it returned.
VARIABLES base_frame, other_frame, other_is_base, on, left_on, right_on, how, suffixes,
          set_order, op, result

vars ==
    <<base_frame, other_frame, other_is_base, on, left_on, right_on, how, suffixes, set_order,
      op, result>>

fields == <<base_frame, other_frame, other_is_base, on, left_on, right_on, how, suffixes>>

\* The object the methods read.
self ==
    [base_frame |-> base_frame, other_frame |-> other_frame, on |-> on,
     left_on |-> left_on, right_on |-> right_on, how |-> how, suffixes |-> suffixes]

\* ------------------------------------------------------------ key resolution

normalize_keys(candidate) ==
    IF candidate.tag = "None"
    THEN <<>>
    ELSE IF candidate.tag = "str" THEN <<candidate.s>> ELSE candidate.items

names_of(frame) == [i \in DOMAIN columns(frame) |-> get_name(columns(frame)[i])]

\* Mutant of first_missing: the last such position.
first_missing_mutant(keys, present) ==
    LET bad == {i \in DOMAIN keys : keys[i] \notin present}
    IN  IF bad = {} THEN 0 ELSE CHOOSE i \in bad : \A j \in bad : i >= j

\* The position at which a loop over keys that raises on a key not among
\* present stops: that of the first such key, 0 when there is none.
first_missing(keys, present) ==
    LET bad == {i \in DOMAIN keys : keys[i] \notin present}
    IN  IF bad = {} THEN 0 ELSE CHOOSE i \in bad : \A j \in bad : i <= j

\* The common names as list(set(left_cols) & set(right_cols)) returns them.
inferred_keys(s) == list_of_set(Range(names_of(s.base_frame)) \cap Range(names_of(s.other_frame)))

\* Mutant of zip: each left key is paired with itself.
zip_mutant(xs, ys) == [i \in DOMAIN xs |-> <<xs[i], xs[i]>>]

\* list(zip(xs, ys))
zip(xs, ys) ==
    [i \in 1..(IF Len(xs) <= Len(ys) THEN Len(xs) ELSE Len(ys)) |-> <<xs[i], ys[i]>>]

\* Mutant of conflicting_keys: on conflicts only with left_on and right_on both.
conflicting_keys_mutant(s) ==
    s.on.tag # "None" /\ (s.left_on.tag # "None" /\ s.right_on.tag # "None")

\* The test of line 101.
conflicting_keys(s) ==
    s.on.tag # "None" /\ (s.left_on.tag # "None" \/ s.right_on.tag # "None")

\* Mutant of derive_key_pairs: on is tested for being empty, not for being None.
derive_key_pairs_mutant(s, inferred) ==
    LET left_cols == names_of(s.base_frame)
        right_cols == names_of(s.other_frame)
        on_keys == normalize_keys(s.on)
        left_keys == normalize_keys(s.left_on)
        right_keys == normalize_keys(s.right_on)
        bad_on == first_missing(on_keys, Range(left_cols) \cap Range(right_cols))
        bad_left == first_missing(left_keys, Range(left_cols))
        bad_right == first_missing(right_keys, Range(right_cols))
    IN  IF conflicting_keys(s)
        THEN Raise("ValueError", "Cannot pass 'on' together with 'left_on' or 'right_on'")
        ELSE IF on_keys # <<>>
        THEN IF bad_on # 0
             THEN Raise("ValueError",
                        "Merge key '" \o on_keys[bad_on] \o "' not present in both frames")
             ELSE Ok([i \in DOMAIN on_keys |-> <<on_keys[i], on_keys[i]>>])
        ELSE IF left_keys # <<>> \/ right_keys # <<>>
        THEN IF Len(left_keys) # Len(right_keys)
             THEN Raise("ValueError", "left_on and right_on must be same length")
             ELSE IF bad_left # 0
             THEN Raise("ValueError", "Left key '" \o left_keys[bad_left] \o "' not found")
             ELSE IF bad_right # 0
             THEN Raise("ValueError", "Right key '" \o right_keys[bad_right] \o "' not found")
             ELSE Ok(zip(left_keys, right_keys))
        ELSE Ok([i \in DOMAIN inferred |-> <<inferred[i], inferred[i]>>])

\* __derive_key_pairs; inferred is the list line 124 builds.
derive_key_pairs(s, inferred) ==
    LET left_cols == names_of(s.base_frame)
        right_cols == names_of(s.other_frame)
        on_keys == normalize_keys(s.on)
        left_keys == normalize_keys(s.left_on)
        right_keys == normalize_keys(s.right_on)
        bad_on == first_missing(on_keys, Range(left_cols) \cap Range(right_cols))
        bad_left == first_missing(left_keys, Range(left_cols))
        bad_right == first_missing(right_keys, Range(right_cols))
    IN  IF conflicting_keys(s)
        THEN Raise("ValueError", "Cannot pass 'on' together with 'left_on' or 'right_on'")
        ELSE IF s.on.tag # "None"
        THEN IF bad_on # 0
             THEN Raise("ValueError",
                        "Merge key '" \o on_keys[bad_on] \o "' not present in both frames")
             ELSE Ok([i \in DOMAIN on_keys |-> <<on_keys[i], on_keys[i]>>])
        ELSE IF left_keys # <<>> \/ right_keys # <<>>
        THEN IF Len(left_keys) # Len(right_keys)
             THEN Raise("ValueError", "left_on and right_on must be same length")
             ELSE IF bad_left # 0
             THEN Raise("ValueError", "Left key '" \o left_keys[bad_left] \o "' not found")
             ELSE IF bad_right # 0
             THEN Raise("ValueError", "Right key '" \o right_keys[bad_right] \o "' not found")
             ELSE Ok(zip(left_keys, right_keys))
        ELSE Ok([i \in DOMAIN inferred |-> <<inferred[i], inferred[i]>>])

\* ------------------------------------------------------------------ join kind

lower_char(c) ==
    CASE c = "A" -> "a" [] c = "B" -> "b" [] c = "C" -> "c" [] c = "D" -> "d"
      [] c = "E" -> "e" [] c = "F" -> "f" [] c = "G" -> "g" [] c = "H" -> "h"
      [] c = "I" -> "i" [] c = "J" -> "j" [] c = "K" -> "k" [] c = "L" -> "l"
      [] c = "M" -> "m" [] c = "N" -> "n" [] c = "O" -> "o" [] c = "P" -> "p"
      [] c = "Q" -> "q" [] c = "R" -> "r" [] c = "S" -> "s" [] c = "T" -> "t"
      [] c = "U" -> "u" [] c = "V" -> "v" [] c = "W" -> "w" [] c = "X" -> "x"
      [] c = "Y" -> "y" [] c = "Z" -> "z" [] OTHER -> c

\* Mutant of lower: the string is compared as given.
lower_mutant(cs) == cs

\* str.lower()
lower(cs) == [i \in DOMAIN cs |-> lower_char(cs[i])]

\* __join_type
join_type(s) ==
    LET how_lower == lower(s.how)
    IN  IF how_lower = <<"i", "n", "n", "e", "r">>
        THEN Ok("INNER")
        ELSE IF how_lower \in {<<"l", "e", "f", "t">>,
                               <<"l", "e", "f", "t", "_", "o", "u", "t", "e", "r">>}
        THEN Ok("LEFT")
        ELSE IF how_lower \in {<<"r", "i", "g", "h", "t">>,
                               <<"r", "i", "g", "h", "t", "_", "o", "u", "t", "e", "r">>}
        THEN Ok("RIGHT")
        ELSE IF how_lower \in {<<"o", "u", "t", "e", "r">>,
                               <<"f", "u", "l", "l">>,
                               <<"f", "u", "l", "l", "_", "o", "u", "t", "e", "r">>}
        THEN Ok("FULL")
        ELSE Raise("ValueError", "Unsupported merge how - " \o str(s.how))

\* ------------------------------------------------------------- output schema

\* Mutant of left_keys_same_name: the same-named keys are not taken out of the
\* overlapping names.
left_keys_same_name_mutant(key_pairs) == {}

\* {l for l, r in key_pairs if l == r} of calculate_columns
left_keys_same_name(key_pairs) ==
    {key_pairs[i][1] : i \in {j \in DOMAIN key_pairs : key_pairs[j][1] = key_pairs[j][2]}}

\* Mutant of has_duplicates: only neighbours are compared.
has_duplicates_mutant(names) == \E i \in DOMAIN names : i > 1 /\ names[i] = names[i - 1]

\* len(names) != len(set(names))
has_duplicates(names) == Len(names) # Cardinality(Range(names))

\* calculate_columns
calculate_columns(s, inferred) ==
    LET derived == derive_key_pairs(s, inferred)
        key_pairs == derived.value
        left_cols == names_of(s.base_frame)
        right_cols == names_of(s.other_frame)
        overlapping == (Range(left_cols) \cap Range(right_cols)) \ left_keys_same_name(key_pairs)
        base_cols == columns(s.base_frame)
        other_cols == columns(s.other_frame)
        suffix0 == subscript(s.suffixes, 0)
        suffix1 == subscript(s.suffixes, 1)
        KeyAppearsAlready(c) ==
            \E i \in DOMAIN key_pairs :
                get_name(c) = key_pairs[i][1] /\ key_pairs[i][1] = key_pairs[i][2]
        Kept(c) == ~KeyAppearsAlready(c)
        right_kept == SelectSeq(other_cols, Kept)
        left_part ==
            [i \in DOMAIN base_cols |->
                IF get_name(base_cols[i]) \in overlapping
                THEN TdsColumn(get_name(base_cols[i]) \o suffix0.value, get_type(base_cols[i]))
                ELSE copy(base_cols[i])]
        right_part ==
            [i \in DOMAIN right_kept |->
                IF get_name(right_kept[i]) \in overlapping
                THEN TdsColumn(get_name(right_kept[i]) \o suffix1.value, get_type(right_kept[i]))
                ELSE copy(right_kept[i])]
        result_cols == left_part \o right_part
        names == [i \in DOMAIN result_cols |-> get_name(result_cols[i])]
    IN  IF derived.kind = "raise"
        THEN derived
        ELSE IF suffix0.kind = "raise"
                /\ \E i \in DOMAIN base_cols : get_name(base_cols[i]) \in overlapping
        THEN suffix0
        ELSE IF suffix1.kind = "raise"
                /\ \E i \in DOMAIN right_kept : get_name(right_kept[i]) \in overlapping
        THEN suffix1
        ELSE IF has_duplicates(names)
        THEN Raise("ValueError",
                   "Resulting merged columns contain duplicates after suffix application")
        ELSE Ok(result_cols)

\* ------------------------------------------------------------------ validate

\* Mutant of validate: the keys are resolved before the suffixes are looked at.
validate_mutant(s, inferred) ==
    IF derive_key_pairs(s, inferred).kind = "raise"
    THEN derive_key_pairs(s, inferred)
    ELSE IF ~(s.suffixes.tag = "tuple" /\ Len(s.suffixes.items) = 2)
    THEN Raise("ValueError", "suffixes must be a tuple of length 2")
    ELSE IF join_type(s).kind = "raise"
    THEN join_type(s)
    ELSE Ok(TRUE)

\* Mutant of validate: the columns are composed as a last check.
validate_composing_mutant(s, inferred) ==
    IF ~(s.suffixes.tag = "tuple" /\ Len(s.suffixes.items) = 2)
    THEN Raise("ValueError", "suffixes must be a tuple of length 2")
    ELSE IF derive_key_pairs(s, inferred).kind = "raise"
    THEN derive_key_pairs(s, inferred)
    ELSE IF join_type(s).kind = "raise"
    THEN join_type(s)
    ELSE IF calculate_columns(s, inferred).kind = "raise"
    THEN calculate_columns(s, inferred)
    ELSE Ok(TRUE)

validate(s, inferred) ==
    IF ~(s.suffixes.tag = "tuple" /\ Len(s.suffixes.items) = 2)
    THEN Raise("ValueError", "suffixes must be a tuple of length 2")
    ELSE IF derive_key_pairs(s, inferred).kind = "raise"
    THEN derive_key_pairs(s, inferred)
    ELSE IF join_type(s).kind = "raise"
    THEN join_type(s)
    ELSE Ok(TRUE)

\* ------------------------------------------------------------ join condition

\* left_row[l]: the column l of the row named row
column_of(row, name) == [node |-> "column", row |-> row, name |-> name]

\* Mutant of equals: the operands are exchanged.
equals_mutant(l, r) == [node |-> "==", left |-> r, right |-> l]

\* left_row[l] == right_row[r]
equals(l, r) == [node |-> "==", left |-> l, right |-> r]

\* Mutant of and: the new equality is put before the conjunction so far.
and_mutant(l, r) == [node |-> "&", left |-> r, right |-> l]

\* expr & part
and(l, r) == [node |-> "&", left |-> l, right |-> r]

\* PyLegendBoolean(PyLegendBooleanLiteralExpression(True))
boolean_literal(b) == [node |-> "literal", value |-> b]

\* The loop of lines 134-137 over the first n key pairs.
RECURSIVE condition_loop(_, _)
condition_loop(key_pairs, n) ==
    LET part == equals(column_of("left", key_pairs[n][1]), column_of("right", key_pairs[n][2]))
    IN  IF n = 1 THEN part ELSE and(condition_loop(key_pairs, n - 1), part)

\* __build_condition
build_condition(s, inferred) ==
    LET derived == derive_key_pairs(s, inferred)
        key_pairs == derived.value
    IN  IF derived.kind = "raise"
        THEN derived
        ELSE IF key_pairs = <<>>
        THEN Ok(boolean_literal(TRUE))
        ELSE Ok(condition_loop(key_pairs, Len(key_pairs)))

\* ------------------------------------------- collaborators of the two emitters

\* db_extension.quote_identifier
quote_identifier(name) == "\"" \o name \o "\""

SingleColumn(alias, expression) == [alias |-> alias, expression |-> expression]

\* QualifiedNameReference(QualifiedName(parts))
QualifiedNameReference(parts) == [node |-> "QualifiedNameReference", parts |-> parts]

\* The compiled query of a frame: the columns of an input frame read from its
\* table, the plan of its merge function for a merged frame.
to_sql_query_object(frame) ==
    IF is_merged(frame)
    THEN frame.query
    ELSE
    [select |-> [i \in DOMAIN columns(frame) |->
                    SingleColumn(quote_identifier(get_name(columns(frame)[i])),
                                 QualifiedNameReference(<<quote_identifier("root"),
                                                          get_name(columns(frame)[i])>>))],
     from |-> <<frame.table>>]

copy_query(query) == [select |-> query.select, from |-> query.from]

extract_columns_for_subquery(query) == [i \in DOMAIN query.select |-> query.select[i].alias]

AliasedRelation(relation, alias, columnNames) ==
    [node |-> "AliasedRelation", relation |-> relation, alias |-> alias,
     columnNames |-> columnNames]

\* create_sub_query: query as a relation named alias, every column selected again.
create_sub_query(query, alias) ==
    [select |-> [i \in DOMAIN query.select |->
                    SingleColumn(query.select[i].alias,
                                 QualifiedNameReference(<<quote_identifier(alias),
                                                          query.select[i].alias>>))],
     from |-> <<AliasedRelation(query, quote_identifier(alias),
                                extract_columns_for_subquery(query))>>]

\* PyLegendPrimitive.to_sql_expression
RECURSIVE to_sql_expression(_)
to_sql_expression(expr) ==
    CASE expr.node = "literal" -> [node |-> "BooleanLiteral", value |-> expr.value]
      [] expr.node = "column" ->
            QualifiedNameReference(<<quote_identifier(expr.row), quote_identifier(expr.name)>>)
      [] expr.node = "==" ->
            [node |-> "ComparisonExpression", operator |-> "=",
             left |-> to_sql_expression(expr.left), right |-> to_sql_expression(expr.right)]
      [] expr.node = "&" ->
            [node |-> "LogicalBinaryExpression", operator |-> "AND",
             left |-> to_sql_expression(expr.left), right |-> to_sql_expression(expr.right)]

\* PyLegendPrimitive.to_pure_expression
RECURSIVE to_pure_expression(_)
to_pure_expression(expr) ==
    CASE expr.node = "literal" -> IF expr.value THEN "true" ELSE "false"
      [] expr.node = "column" -> "$" \o expr.row \o "." \o expr.name
      [] expr.node = "==" ->
            to_pure_expression(expr.left) \o " == " \o to_pure_expression(expr.right)
      [] expr.node = "&" ->
            to_pure_expression(expr.left) \o " && " \o to_pure_expression(expr.right)

\* generate_pure_lambda
generate_pure_lambda(param_name, expr) == "{" \o param_name \o " | " \o expr \o "}"

\* The program of a frame: the table of an input frame, the program of its
\* merge function for a merged frame.
frame_to_pure(frame) ==
    IF is_merged(frame)
    THEN frame.program
    ELSE [source |-> "#Table(test_schema." \o frame.table \o ")#", calls |-> <<>>]

\* ---------------------------------------------------------------------- to_sql

\* Mutant of same_name_keys: the right names of the same-named pairs are taken
\* from all pairs.
same_name_keys_mutant(key_pairs) == {key_pairs[i][2] : i \in DOMAIN key_pairs}

\* {l for l, r in key_pairs if l == r} of to_sql
same_name_keys(key_pairs) ==
    {key_pairs[i][1] : i \in {j \in DOMAIN key_pairs : key_pairs[j][1] = key_pairs[j][2]}}

to_sql(s, inferred) ==
    LET left_query == copy_query(to_sql_query_object(s.base_frame))
        right_query == copy_query(to_sql_query_object(s.other_frame))
        join_condition_expr == build_condition(s, inferred)
        join_sql_expr == to_sql_expression(join_condition_expr.value)
        left_alias == quote_identifier("left")
        right_alias == quote_identifier("right")
        result_columns == calculate_columns(s, inferred)
        key_pairs == derive_key_pairs(s, inferred).value
        same == same_name_keys(key_pairs)
        left_cols_set == Range(names_of(s.base_frame))
        right_cols_set == Range(names_of(s.other_frame))
        overlapping == (left_cols_set \cap right_cols_set) \ same
        base_cols == columns(s.base_frame)
        NotSameNameKey(c) == get_name(c) \notin same
        right_kept == SelectSeq(columns(s.other_frame), NotSameNameKey)
        out_left(orig) ==
            IF orig \in overlapping THEN orig \o subscript(s.suffixes, 0).value ELSE orig
        out_right(orig) ==
            IF orig \in overlapping THEN orig \o subscript(s.suffixes, 1).value ELSE orig
        left_items ==
            [i \in DOMAIN base_cols |->
                SingleColumn(quote_identifier(out_left(get_name(base_cols[i]))),
                             QualifiedNameReference(
                                 <<left_alias, quote_identifier(get_name(base_cols[i]))>>))]
        right_items ==
            [i \in DOMAIN right_kept |->
                SingleColumn(quote_identifier(out_right(get_name(right_kept[i]))),
                             QualifiedNameReference(
                                 <<right_alias, quote_identifier(get_name(right_kept[i]))>>))]
        select_items == left_items \o right_items
        join_spec ==
            [select |-> select_items,
             from |-> <<[node |-> "Join",
                         type |-> join_type(s).value,
                         left |-> AliasedRelation(left_query, left_alias,
                                                  extract_columns_for_subquery(left_query)),
                         right |-> AliasedRelation(right_query, right_alias,
                                                   extract_columns_for_subquery(right_query)),
                         criteria |-> [node |-> "JoinOn", expression |-> join_sql_expr]]>>]
    IN  IF join_condition_expr.kind = "raise"
        THEN join_condition_expr
        ELSE IF result_columns.kind = "raise"
        THEN result_columns
        ELSE IF join_type(s).kind = "raise"
        THEN join_type(s)
        ELSE Ok(create_sub_query(join_spec, "root"))

\* --------------------------------------------------------------------- to_pure

to_pure(s, inferred) ==
    LET how_lower == lower(s.how)
        join_kind ==
            IF how_lower = <<"i", "n", "n", "e", "r">>
            THEN "INNER"
            ELSE IF how_lower \in {<<"l", "e", "f", "t">>,
                                   <<"l", "e", "f", "t", "_", "o", "u", "t", "e", "r">>}
            THEN "LEFT"
            ELSE IF how_lower \in {<<"r", "i", "g", "h", "t">>,
                                   <<"r", "i", "g", "h", "t", "_", "o", "u", "t", "e", "r">>}
            THEN "RIGHT"
            ELSE "FULL"
        cond_expr == build_condition(s, inferred)
        cond_str == to_pure_expression(cond_expr.value)
    IN  IF cond_expr.kind = "raise"
        THEN cond_expr
        ELSE Ok([source |-> frame_to_pure(s.base_frame).source,
                 calls |-> frame_to_pure(s.base_frame).calls \o
                           <<[function |-> "merge",
                              other |-> frame_to_pure(s.other_frame),
                              kind |-> "JoinKind." \o join_kind,
                              lambda |-> generate_pure_lambda("l, r", cond_str)]>>])

\* ------------------------------------------------------- the objects modelled

\* Column names of the frames; "a" with the suffix "_x" is the name "a_x".
ColNames == {"a", "b", "a_x"}

\* Names given as keys.
KeyNames == {"a", "b"}

\* The lists of 1..n distinct elements of S.
DistinctSeqs(S, n) ==
    UNION {{f \in [1..k -> S] : \A i, j \in 1..k : f[i] = f[j] => i = j} : k \in 1..n}

\* The lists of 0..n elements of S.
SeqsUpTo(S, n) == UNION {[1..k -> S] : k \in 0..n}

\* Frames of unique column names, all columns of one type.
Frames(table, type) ==
    {Frame(table, [i \in DOMAIN ns |-> TdsColumn(ns[i], type)]) :
        ns \in DistinctSeqs(ColNames, MaxCols)}

BaseFrames == Frames("test_table", "Integer")

OtherFrames == Frames("test_table_2", "Float")

\* What on, left_on and right_on may be: None, a name, a list of names.
KeyArgs == {None} \cup {Str(k) : k \in KeyNames} \cup {List(ks) : ks \in SeqsUpTo(KeyNames, MaxKeys)}

KeyArgsCore == {None, Str("a"), List(<<"a", "b">>), List(<<>>)}

Keys(o, l, r) == [on |-> o, left_on |-> l, right_on |-> r]

\* on alone, left_on with right_on, and on together with either.
KeySpecs ==
    {Keys(o, None, None) : o \in KeyArgs}
    \cup {Keys(None, l, r) : l \in KeyArgs, r \in KeyArgs}
    \cup {Keys(o, l, r) : o \in KeyArgsCore \ {None}, l \in KeyArgsCore, r \in KeyArgsCore}

KeySpecsCore ==
    {Keys(None, None, None), Keys(Str("a"), None, None), Keys(List(<<"b", "a">>), None, None),
     Keys(None, Str("a"), Str("b")), Keys(None, List(<<"a", "b">>), List(<<"a", "a">>)),
     Keys(None, Str("b"), None), Keys(Str("a"), Str("a"), None),
     Keys(List(<<"b">>), None, List(<<"a", "b">>)),
     Keys(None, List(<<"a", "b", "a">>), List(<<"a", "a_x", "a">>))}

Inner == <<"i", "n", "n", "e", "r">>

\* how: the eight spellings, other cases of them, and strings that are none.
HowStrings ==
    {Inner,
     <<"l", "e", "f", "t">>,
     <<"l", "e", "f", "t", "_", "o", "u", "t", "e", "r">>,
     <<"r", "i", "g", "h", "t">>,
     <<"r", "i", "g", "h", "t", "_", "o", "u", "t", "e", "r">>,
     <<"o", "u", "t", "e", "r">>,
     <<"f", "u", "l", "l">>,
     <<"f", "u", "l", "l", "_", "o", "u", "t", "e", "r">>,
     <<"I", "N", "N", "E", "R">>,
     <<"L", "e", "f", "t">>,
     <<"R", "i", "g", "h", "t", "_", "O", "u", "t", "e", "r">>,
     <<"O", "U", "T", "E", "R">>,
     <<"F", "u", "l", "L">>,
     <<"F", "U", "L", "L", "_", "o", "u", "t", "e", "r">>,
     <<"c", "r", "o", "s", "s">>,
     <<>>,
     <<"i", "n", "n", "e", "r", " ">>,
     <<"l", "e", "f", "t", " ", "o", "u", "t", "e", "r">>,
     <<"L", "E", "F", "T", "O", "U", "T", "E", "R">>,
     <<"f", "u", "l", "l", "_">>}

DefaultSuffixes == Tuple(<<"_x", "_y">>)

\* suffixes: pairs, and values that are no pair.
SuffixValues ==
    {DefaultSuffixes, Tuple(<<"_x", "_x">>), Tuple(<<"_y", "_x">>), Tuple(<<"", "_x">>),
     Tuple(<<"", "">>), None, Tuple(<<>>), Tuple(<<"_x">>), Tuple(<<"_x", "_y", "_z">>),
     List(<<"_x", "_y">>)}

SuffixCore == {DefaultSuffixes, None}

FramesCore ==
    {<<Frame("test_table", <<TdsColumn("a", "Integer"), TdsColumn("b", "Integer")>>),
       Frame("test_table_2", <<TdsColumn("a", "Float"), TdsColumn("a_x", "Float")>>)>>}

MergeSpec(b, o, k, h, sf) ==
    [base_frame |-> b, other_frame |-> o, on |-> k.on, left_on |-> k.left_on,
     right_on |-> k.right_on, how |-> h, suffixes |-> sf]

\* Frames whose columns are key names: they decide key resolution.
KeyBaseFrames == {f \in BaseFrames : Range(names_of(f)) \subseteq KeyNames}

KeyOtherFrames == {f \in OtherFrames : Range(names_of(f)) \subseteq KeyNames}

\* The merge functions constructed: every key argument over the frames of key
\* names, every suffix value over every frame pair, every how string.
MergeSpecs ==
    {MergeSpec(b, o, k, Inner, DefaultSuffixes) :
        b \in KeyBaseFrames, o \in KeyOtherFrames, k \in KeySpecs}
    \cup {MergeSpec(b, o, k, Inner, sf) :
        b \in BaseFrames, o \in OtherFrames, k \in KeySpecsCore, sf \in SuffixValues}
    \cup {MergeSpec(f[1], f[2], k, h, sf) :
        f \in FramesCore, k \in KeySpecsCore, h \in HowStrings, sf \in SuffixCore}

\* The merge functions constructed over one frame given twice.
SelfMergeSpecs ==
    {MergeSpec(b, b, k, Inner, DefaultSuffixes) : b \in KeyBaseFrames, k \in KeySpecsCore}
    \cup {MergeSpec(f[1], f[1], k, h, sf) :
        f \in FramesCore, k \in KeySpecsCore, h \in HowStrings, sf \in SuffixCore}

\* --------------------------------------------------------------- the machine

NoCall == [kind |-> "none"]

\* __init__: the arguments are assigned as they come. The two frames are not
\* compared, so other may be the very object base is; two frame objects may
\* also be equal column by column and still be two.
Init ==
    /\ \E m \in MergeSpecs \cup SelfMergeSpecs :
        /\ base_frame = m.base_frame
        /\ other_frame = m.other_frame
        /\ other_is_base \in (IF m.other_frame = m.base_frame THEN BOOLEAN ELSE {FALSE})
        /\ on = m.on
        /\ left_on = m.left_on
        /\ right_on = m.right_on
        /\ how = m.how
        /\ suffixes = m.suffixes
    /\ set_order \in inferred_keys(self)
    /\ op = "__init__"
    /\ result = NoCall

CallDeriveKeyPairs ==
    /\ op' = "derive_key_pairs"
    /\ result' = derive_key_pairs(self, set_order)
    /\ UNCHANGED <<fields, set_order>>

CallJoinType ==
    /\ op' = "join_type"
    /\ result' = join_type(self)
    /\ UNCHANGED <<fields, set_order>>

CallBuildCondition ==
    /\ op' = "build_condition"
    /\ result' = build_condition(self, set_order)
    /\ UNCHANGED <<fields, set_order>>

\* Mutant of CallCalculateColumns: the suffixed names are written into the base
\* frame's own columns.
CallCalculateColumns_mutant ==
    /\ op' = "calculate_columns"
    /\ result' = calculate_columns(self, set_order)
    /\ base_frame' =
            IF result'.kind = "ok"
            THEN [base_frame EXCEPT !.cols = SubSeq(result'.value, 1, Len(columns(base_frame)))]
            ELSE base_frame
    /\ UNCHANGED <<other_frame, other_is_base, on, left_on, right_on, how, suffixes, set_order>>

CallCalculateColumns ==
    /\ op' = "calculate_columns"
    /\ result' = calculate_columns(self, set_order)
    /\ UNCHANGED <<fields, set_order>>

\* Mutant of CallValidate: the error the last call raised is kept and raised
\* again.
CallValidate_mutant ==
    /\ op' = "validate"
    /\ result' = IF result.kind = "raise" THEN result ELSE validate(self, set_order)
    /\ UNCHANGED <<fields, set_order>>

CallValidate ==
    /\ op' = "validate"
    /\ result' = validate(self, set_order)
    /\ UNCHANGED <<fields, set_order>>

CallToSql ==
    /\ op' = "to_sql"
    /\ result' = to_sql(self, set_order)
    /\ UNCHANGED <<fields, set_order>>

CallToPure ==
    /\ op' = "to_pure"
    /\ result' = to_pure(self, set_order)
    /\ UNCHANGED <<fields, set_order>>

\* The frame a merge gives: its columns are what calculate_columns returned, its
\* query and its program are what to_sql and to_pure of the merge function
\* return. It stands in the model under the name of the function, "merge".
MergedFrame(cols, query, program) ==
    [table |-> "merge", cols |-> cols, query |-> query, program |-> program]

\* The key arguments of a further merge.
ChainKeys ==
    {Keys(None, None, None), Keys(Str("a"), None, None), Keys(None, Str("a"), Str("b")),
     Keys(None, Str("b"), Str("a"))}

\* The arguments of a further merge: inner with the default suffixes for each
\* of these keys, and a left merge on one name with suffixes of its own.
ChainArgs ==
    {[keys |-> k, how |-> Inner, suffixes |-> DefaultSuffixes] : k \in ChainKeys}
    \cup {[keys |-> Keys(None, Str("a"), Str("a")), how |-> <<"l", "e", "f", "t">>,
            suffixes |-> Tuple(<<"_left", "_right">>)]}

\* merged.merge(other, ...) and base.merge(merged, ...): a further merge
\* function is constructed over the frame of an inner merge of two input
\* frames, as base or as other frame, with arguments of its own.
Chain ==
    /\ op = "calculate_columns"
    /\ result.kind = "ok"
    /\ Len(result.value) <= MaxChainCols
    /\ how = Inner
    /\ suffixes = DefaultSuffixes
    /\ ~is_merged(base_frame)
    /\ ~is_merged(other_frame)
    /\ LET merged == MergedFrame(result.value, to_sql(self, set_order).value,
                                 to_pure(self, set_order).value)
       IN  \/ /\ base_frame' = merged
              /\ other_frame' \in KeyOtherFrames
           \/ /\ base_frame' \in KeyBaseFrames
              /\ other_frame' = merged
    /\ other_is_base' = FALSE
    /\ \E args \in ChainArgs :
        /\ on' = args.keys.on
        /\ left_on' = args.keys.left_on
        /\ right_on' = args.keys.right_on
        /\ how' = args.how
        /\ suffixes' = args.suffixes
    /\ set_order' \in inferred_keys([base_frame |-> base_frame', other_frame |-> other_frame'])
    /\ op' = "__init__"
    /\ result' = NoCall

Next ==
    \/ Chain
    \/ CallDeriveKeyPairs
    \/ CallJoinType
    \/ CallBuildCondition
    \/ CallCalculateColumns
    \/ CallValidate
    \/ CallToSql
    \/ CallToPure

Spec == Init /\ [][Next]_vars

\* ================================================================ properties

NamesOf(cols) == [i \in DOMAIN cols |-> cols[i].name]

TypesOf(cols) == [i \in DOMAIN cols |-> cols[i].type]

Distinct(xs) == \A i, j \in DOMAIN xs : xs[i] = xs[j] => i = j

BaseNames == NamesOf(base_frame.cols)

OtherNames == NamesOf(other_frame.cols)

CommonNames == Range(BaseNames) \cap Range(OtherNames)

\* Key resolution succeeds (whether it does never depends on the order of the
\* inferred list).
KeysResolve == \A inferred \in inferred_keys(self) : derive_key_pairs(self, inferred).kind = "ok"

\* A resolved key-pair list.
ResolvedPairs ==
    derive_key_pairs(self, CHOOSE inferred \in inferred_keys(self) : TRUE).value

\* The names l of the key pairs (l, r) with l = r.
SameNamedKeys ==
    {ResolvedPairs[i][1] : i \in {j \in DOMAIN ResolvedPairs :
                                    ResolvedPairs[j][1] = ResolvedPairs[j][2]}}

\* The shared names that are no same-named key.
Overlap == CommonNames \ SameNamedKeys

\* suffixes[0] and suffixes[1] exist.
SuffixesSubscriptable == suffixes.tag # "None" /\ Len(suffixes.items) >= 2

\* The columns of the other frame that are no same-named key.
OtherKept ==
    LET NotKey(c) == c.name \notin SameNamedKeys
    IN  SelectSeq(other_frame.cols, NotKey)

DuplicateColumnError ==
    Raise("ValueError", "Resulting merged columns contain duplicates after suffix application")

ConflictingKeysError ==
    Raise("ValueError", "Cannot pass 'on' together with 'left_on' or 'right_on'")

\* C1: calculate_columns never returns two equal names: what it returns has
\* pairwise distinct names, and once the keys resolve and both suffixes exist it
\* returns such a list or raises the duplicate-column error.
C1_NoDuplicateNames ==
    op = "calculate_columns" =>
        /\ result.kind = "ok" => Distinct(NamesOf(result.value))
        /\ (KeysResolve /\ SuffixesSubscriptable) =>
                (result.kind = "ok" \/ result = DuplicateColumnError)

\* C1 witness: the default suffixes applied to "a" collide with the column "a_x"
\* and the duplicate-column error is raised.
C1_Witness ==
    /\ op = "calculate_columns"
    /\ result = DuplicateColumnError
    /\ suffixes = DefaultSuffixes
    /\ "a" \in Overlap
    /\ "a_x" \in Range(BaseNames) \cup Range(OtherNames)

\* The schema the composition rule gives: base columns in base order, then the
\* other frame's columns but the same-named keys in its order, the names of
\* Overlap suffixed.
ExpectedSchema ==
    LET left ==
            [i \in DOMAIN base_frame.cols |->
                [name |-> IF BaseNames[i] \in Overlap
                          THEN BaseNames[i] \o suffixes.items[1]
                          ELSE BaseNames[i],
                 type |-> base_frame.cols[i].type]]
        right ==
            [i \in DOMAIN OtherKept |->
                [name |-> IF OtherKept[i].name \in Overlap
                          THEN OtherKept[i].name \o suffixes.items[2]
                          ELSE OtherKept[i].name,
                 type |-> OtherKept[i].type]]
    IN  left \o right

\* C2: a successful calculate_columns returns every base column in base order
\* (suffixed with suffixes[0] when in Overlap) followed by every other column
\* that is no same-named key in other order (suffixed with suffixes[1] when in
\* Overlap).
C2_SchemaOrderAndContent ==
    (op = "calculate_columns" /\ result.kind = "ok") => result.value = ExpectedSchema

\* C2 witness: a same-named key kept once and a shared non-key name suffixed on
\* both sides.
C2_Witness ==
    /\ op = "calculate_columns"
    /\ result.kind = "ok"
    /\ NamesOf(result.value) = <<"a", "b_x", "b_y">>
    /\ TypesOf(result.value) = <<"Integer", "Integer", "Float">>

\* The query with the join of a plan: the relation of the "root" subquery.
JoinQueryOf(plan) == plan.from[1].relation

\* C3: the select list of a successful to_sql has one item per schema entry, in
\* schema order, named as the entry and reading left.<original name> for a base
\* column and right.<original name> for an other column; to_sql fails whenever
\* calculate_columns fails.
C3_SchemaPlanAgreement ==
    op = "to_sql" =>
        \A inferred \in inferred_keys(self) :
            LET schema == calculate_columns(self, inferred)
                items == JoinQueryOf(result.value).select
                n == Len(base_frame.cols)
            IN  /\ schema.kind = "raise" => result.kind = "raise"
                /\ result.kind = "ok" =>
                    /\ schema.kind = "ok"
                    /\ Len(items) = Len(schema.value)
                    /\ \A i \in DOMAIN items :
                        /\ items[i].alias = quote_identifier(schema.value[i].name)
                        /\ items[i].expression.parts =
                            IF i <= n
                            THEN <<quote_identifier("left"), quote_identifier(BaseNames[i])>>
                            ELSE <<quote_identifier("right"),
                                   quote_identifier(OtherKept[i - n].name)>>

\* C3 witness: a plan whose select list renames a shared column on both sides
\* and reads the same-named key from the left only.
C3_Witness ==
    /\ op = "to_sql"
    /\ result.kind = "ok"
    /\ BaseNames = <<"a", "b">>
    /\ OtherNames = <<"b", "a">>
    /\ Len(JoinQueryOf(result.value).select) = 3
    /\ [i \in 1..3 |-> JoinQueryOf(result.value).select[i].alias]
            = <<"\"a_x\"", "\"b\"", "\"a_y\"">>

\* The columns an emitted program yields: the program of the base frame and the
\* program of the other frame are taken to yield the columns of their frames,
\* and a merge call appends the columns of its other program to those of the
\* program it is called on (a join keeps every column of both sides).
SourceColumns(program) ==
    IF program = frame_to_pure(base_frame) THEN BaseNames ELSE OtherNames

FinalColumns(program) ==
    LET n == Len(program.calls)
    IN  IF n = 0
        THEN SourceColumns(program)
        ELSE SourceColumns([source |-> program.source, calls |-> SubSeq(program.calls, 1, n - 1)])
             \o SourceColumns(program.calls[n].other)

\* suffixes is a tuple of two strings, as validate requires.
SuffixShapeOk == suffixes.tag = "tuple" /\ Len(suffixes.items) = 2

\* C4: the final column names of the program to_pure emits (for a merge
\* function with a pair of suffixes) are, in order, the names calculate_columns
\* returns.
C4_SchemaProgramAgreement ==
    (op = "to_pure" /\ result.kind = "ok" /\ SuffixShapeOk) =>
        \A inferred \in inferred_keys(self) :
            LET schema == calculate_columns(self, inferred)
            IN  schema.kind = "ok" => FinalColumns(result.value) = NamesOf(schema.value)

\* on, left_on or right_on as a list: a bare name is a list of one.
AsList(arg) ==
    IF arg = None THEN <<>> ELSE IF arg.tag = "str" THEN <<arg.s>> ELSE arg.items

UnknownKeyError(k) == Raise("ValueError", "Merge key '" \o k \o "' not present in both frames")

\* C5: with on alone, the key pairs are (k, k) for the names of on in the order
\* given when every name is a column of both frames; otherwise the unknown-key
\* error names the first name of on missing from either frame.
C5_OnResolution ==
    (op = "derive_key_pairs" /\ on # None /\ left_on = None /\ right_on = None) =>
        LET ks == AsList(on)
            missing == {i \in DOMAIN ks : ks[i] \notin CommonNames}
        IN  IF missing = {}
            THEN result = Ok([i \in DOMAIN ks |-> <<ks[i], ks[i]>>])
            ELSE \E i \in missing :
                    /\ \A j \in missing : i <= j
                    /\ result = UnknownKeyError(ks[i])

\* C5 witness: two names of on are missing, each from another frame, and the
\* error names the first.
C5_Witness ==
    /\ op = "derive_key_pairs"
    /\ on = List(<<"a", "b">>)
    /\ left_on = None /\ right_on = None
    /\ "a" \notin Range(OtherNames)
    /\ "b" \notin Range(BaseNames)
    /\ result = UnknownKeyError("a")

\* What left_on with right_on resolve to: lists of unequal length are the
\* length-mismatch error, a left name that is no base column or a right name
\* that is no other column an unknown-key error, and otherwise the positional
\* zip.
ExplicitPairRule ==
    LET ls == AsList(left_on)
        rs == AsList(right_on)
        bad_left == {k \in Range(ls) : k \notin Range(BaseNames)}
        bad_right == {k \in Range(rs) : k \notin Range(OtherNames)}
    IN  IF Len(ls) # Len(rs)
        THEN result = Raise("ValueError", "left_on and right_on must be same length")
        ELSE IF bad_left \cup bad_right # {}
        THEN result \in
                {Raise("ValueError", "Left key '" \o k \o "' not found") : k \in bad_left}
                \cup {Raise("ValueError", "Right key '" \o k \o "' not found") : k \in bad_right}
        ELSE result = Ok([i \in DOMAIN ls |-> <<ls[i], rs[i]>>])

\* C6 as claimed: whenever on is not set and left_on or right_on is set, key
\* resolution follows the rule above.
C6_Claimed ==
    (op = "derive_key_pairs" /\ on = None /\ (left_on # None \/ right_on # None)) =>
        ExplicitPairRule

\* C6 as amended: whenever on is not set and left_on or right_on names at least
\* one key, key resolution follows the rule above (empty lists count as not
\* given).
C6_ExplicitPairs ==
    (op = "derive_key_pairs" /\ on = None
        /\ (AsList(left_on) # <<>> \/ AsList(right_on) # <<>>)) =>
        ExplicitPairRule

\* C6 witness: two pairs of differently named keys, zipped in the order given.
C6_Witness ==
    /\ op = "derive_key_pairs"
    /\ on = None
    /\ left_on = List(<<"a", "b">>)
    /\ right_on = List(<<"b", "a">>)
    /\ result = Ok(<<<<"a", "b">>, <<"b", "a">>>>)

OnWithLeftOrRight == on # None /\ (left_on # None \/ right_on # None)

SuffixShapeError == Raise("ValueError", "suffixes must be a tuple of length 2")

\* C7 as claimed: with on together with left_on or right_on, key resolution,
\* validate, calculate_columns, to_sql and to_pure all fail with the
\* conflicting-keys error.
C7_Claimed ==
    (OnWithLeftOrRight
        /\ op \in {"derive_key_pairs", "validate", "calculate_columns", "to_sql", "to_pure"}) =>
        result = ConflictingKeysError

\* C7 as amended: they all fail with the conflicting-keys error, whatever the
\* other key checks would say, except that validate raises the suffix-shape
\* error first when suffixes is no tuple of length 2.
C7_ConflictingKeys ==
    (OnWithLeftOrRight
        /\ op \in {"derive_key_pairs", "build_condition", "validate", "calculate_columns",
                   "to_sql", "to_pure"}) =>
        IF op = "validate" /\ ~SuffixShapeOk
        THEN result = SuffixShapeError
        ELSE result = ConflictingKeysError

\* C7 witness: on with a left_on naming an unknown key and a right_on of another
\* length: validate raises the conflicting-keys error all the same.
C7_Witness ==
    /\ op = "validate"
    /\ on = Str("a")
    /\ left_on = List(<<"a", "b">>)
    /\ right_on = None
    /\ "b" \notin Range(BaseNames)
    /\ result = ConflictingKeysError

NoKeysGiven == on = None /\ left_on = None /\ right_on = None

\* C8: with no keys given and no common column name, key resolution fails, and
\* so do validate, calculate_columns, to_sql and to_pure (stated for the merge
\* functions with a pair of suffixes).
C8_NoKeysResolved ==
    (NoKeysGiven /\ CommonNames = {} /\ SuffixShapeOk
        /\ op \in {"derive_key_pairs", "validate", "calculate_columns", "to_sql", "to_pure"}) =>
        result.kind = "raise"

\* The common names in base-frame column order.
CommonInBaseOrder ==
    LET InOther(n) == n \in Range(OtherNames)
    IN  SelectSeq(BaseNames, InOther)

\* C9: with no keys given, the key pairs are (k, k) for the common names in
\* base-frame column order (stated for the merge functions with a pair of
\* suffixes).
C9_InferredKeyOrder ==
    (NoKeysGiven /\ op = "derive_key_pairs" /\ SuffixShapeOk) =>
        result = Ok([i \in DOMAIN CommonInBaseOrder |->
                        <<CommonInBaseOrder[i], CommonInBaseOrder[i]>>])

\* The letters with their lower case.
CasePairs ==
    {<<"A", "a">>, <<"B", "b">>, <<"C", "c">>, <<"D", "d">>, <<"E", "e">>, <<"F", "f">>,
     <<"G", "g">>, <<"H", "h">>, <<"I", "i">>, <<"J", "j">>, <<"K", "k">>, <<"L", "l">>,
     <<"M", "m">>, <<"N", "n">>, <<"O", "o">>, <<"P", "p">>, <<"Q", "q">>, <<"R", "r">>,
     <<"S", "s">>, <<"T", "t">>, <<"U", "u">>, <<"V", "v">>, <<"W", "w">>, <<"X", "x">>,
     <<"Y", "y">>, <<"Z", "z">>}

\* cs is the lower-case spelling, in any case.
Spells(cs, spelling) ==
    /\ Len(cs) = Len(spelling)
    /\ \A i \in DOMAIN cs : cs[i] = spelling[i] \/ <<cs[i], spelling[i]>> \in CasePairs

\* C10: __join_type maps how, in any case: inner to INNER; left, left_outer to
\* LEFT; right, right_outer to RIGHT; outer, full, full_outer to FULL; any other
\* string fails with the unsupported-join-kind error carrying the string given.
C10_JoinKindTotality ==
    op = "join_type" =>
        IF Spells(how, <<"i", "n", "n", "e", "r">>)
        THEN result = Ok("INNER")
        ELSE IF \/ Spells(how, <<"l", "e", "f", "t">>)
                \/ Spells(how, <<"l", "e", "f", "t", "_", "o", "u", "t", "e", "r">>)
        THEN result = Ok("LEFT")
        ELSE IF \/ Spells(how, <<"r", "i", "g", "h", "t">>)
                \/ Spells(how, <<"r", "i", "g", "h", "t", "_", "o", "u", "t", "e", "r">>)
        THEN result = Ok("RIGHT")
        ELSE IF \/ Spells(how, <<"o", "u", "t", "e", "r">>)
                \/ Spells(how, <<"f", "u", "l", "l">>)
                \/ Spells(how, <<"f", "u", "l", "l", "_", "o", "u", "t", "e", "r">>)
        THEN result = Ok("FULL")
        ELSE result = Raise("ValueError", "Unsupported merge how - " \o str(how))

\* C10 witness: a spelling in mixed case resolves.
C10_Witness ==
    /\ op = "join_type"
    /\ how = <<"R", "i", "g", "h", "t", "_", "O", "u", "t", "e", "r">>
    /\ result = Ok("RIGHT")

\* The errors key resolution and join-kind resolution raise for this merge
\* function.
ResolverErrors ==
    {r \in {derive_key_pairs(self, inferred) : inferred \in inferred_keys(self)} :
        r.kind = "raise"}
    \cup {r \in {join_type(self)} : r.kind = "raise"}

\* C11: when key resolution or join-kind resolution fails, to_sql and to_pure
\* fail with that error and emit nothing (stated for the merge functions with a
\* pair of suffixes); to_pure emits no program for a how that is none of the
\* eight spellings.
C11_ResolverErrorsReachEmitters ==
    (op \in {"to_sql", "to_pure"} /\ SuffixShapeOk /\ ResolverErrors # {}) =>
        result \in ResolverErrors

\* C12: when every name the frames share is a same-named key, calculate_columns
\* succeeds whatever the suffixes are, and its names are the base names followed
\* by the other names that are no same-named key, none of them changed.
C12_SuffixIdempotence ==
    (op = "calculate_columns" /\ KeysResolve /\ Overlap = {}) =>
        /\ result.kind = "ok"
        /\ NamesOf(result.value) = BaseNames \o NamesOf(OtherKept)

\* C12 witness: the frames share the key "a" only; the other frame's "a_x" is
\* kept as it is although "_x" is a suffix.
C12_Witness ==
    /\ op = "calculate_columns"
    /\ on = Str("a")
    /\ suffixes = DefaultSuffixes
    /\ result.kind = "ok"
    /\ CommonNames = {"a"}
    /\ Overlap = {}
    /\ NamesOf(result.value) = <<"a", "b", "a_x">>

\* The last call of a program is a project.
HasTrailingProject(program) ==
    /\ program.calls # <<>>
    /\ program.calls[Len(program.calls)].function = "project"

\* C13: the program to_pure emits (for a merge function with a pair of
\* suffixes) ends with a project exactly when some resolved key pair is
\* same-named, and the project lists the calculate_columns names in schema
\* order.
C13_ProgramProjection ==
    (op = "to_pure" /\ result.kind = "ok" /\ SuffixShapeOk) =>
        LET program == result.value
        IN  /\ HasTrailingProject(program) <=> SameNamedKeys # {}
            /\ HasTrailingProject(program) =>
                \E inferred \in inferred_keys(self) :
                    LET schema == calculate_columns(self, inferred)
                    IN  /\ schema.kind = "ok"
                        /\ program.calls[Len(program.calls)].columns = NamesOf(schema.value)

\* The temporary name of the right-side column of a same-named key.
TempName(k) == k \o "__right_key_tmp"

\* The (old name, new name) pairs of the rename calls of a program.
RenamesOf(program) ==
    {<<program.calls[i].old, program.calls[i].new>> :
        i \in {j \in DOMAIN program.calls : program.calls[j].function = "rename"}}

\* The right program of the join of a program: the other operand of its last
\* call that has one (the calls before it are those of the base program).
RightProgramOf(program) ==
    LET joins == {i \in DOMAIN program.calls : program.calls[i].function \in {"merge", "join"}}
    IN  program.calls[CHOOSE i \in joins : \A j \in joins : i >= j].other

\* The lambda of that call.
LambdaOf(program) ==
    LET joins == {i \in DOMAIN program.calls : program.calls[i].function \in {"merge", "join"}}
    IN  program.calls[CHOOSE i \in joins : \A j \in joins : i >= j].lambda

\* The name a key operand is referenced by in the lambda: the temporary name for
\* the right column of a same-named key, the suffixed name for a column of
\* Overlap, else the name itself.
LeftOperand(l) == IF l \in Overlap THEN l \o suffixes.items[1] ELSE l

RightOperand(l, r) ==
    IF l = r THEN TempName(r) ELSE IF r \in Overlap THEN r \o suffixes.items[2] ELSE r

EqualityText(pair) ==
    "$l." \o LeftOperand(pair[1]) \o " == $r." \o RightOperand(pair[1], pair[2])

RECURSIVE ConjunctionText(_)
ConjunctionText(pairs) ==
    IF Len(pairs) = 1
    THEN EqualityText(pairs[1])
    ELSE ConjunctionText(SubSeq(pairs, 1, Len(pairs) - 1)) \o " && " \o
         EqualityText(pairs[Len(pairs)])

ExpectedLambda(pairs) == "{l, r | " \o ConjunctionText(pairs) \o "}"

\* C14: in the program to_pure emits (for a merge function with a pair of
\* suffixes), the right program renames l to l__right_key_tmp for every key
\* pair (l, l) and for no pair (l, r) with l # r, and when every pair is
\* same-named the lambda compares each l with its temporary name.
C14_SameNamedKeyRenames ==
    (op = "to_pure" /\ result.kind = "ok" /\ SuffixShapeOk) =>
        LET right == RightProgramOf(result.value)
        IN  /\ \A k \in SameNamedKeys : <<k, TempName(k)>> \in RenamesOf(right)
            /\ \A i \in DOMAIN ResolvedPairs :
                    ResolvedPairs[i][2] \notin SameNamedKeys =>
                        <<ResolvedPairs[i][2], TempName(ResolvedPairs[i][2])>>
                            \notin RenamesOf(right)
            /\ (ResolvedPairs # <<>> /\ \A i \in DOMAIN ResolvedPairs :
                                            ResolvedPairs[i][1] = ResolvedPairs[i][2]) =>
                    \E inferred \in inferred_keys(self) :
                        LambdaOf(result.value)
                            = ExpectedLambda(derive_key_pairs(self, inferred).value)

\* C15: in the program to_pure emits (for a merge function with a pair of
\* suffixes), every name of Overlap is renamed to name + suffixes[0] on the left
\* program and to name + suffixes[1] on the right program, and the lambda
\* references every key operand by the name it has after the renames.
C15_CollisionRenames ==
    (op = "to_pure" /\ result.kind = "ok" /\ SuffixShapeOk) =>
        /\ \A n \in Overlap :
            /\ <<n, n \o suffixes.items[1]>> \in RenamesOf(result.value)
            /\ <<n, n \o suffixes.items[2]>> \in RenamesOf(RightProgramOf(result.value))
        /\ (Overlap # {} /\ ResolvedPairs # <<>>) =>
                \E inferred \in inferred_keys(self) :
                    LambdaOf(result.value)
                        = ExpectedLambda(derive_key_pairs(self, inferred).value)

\* The SQL reference to a column of the relation aliased alias.
ColumnReference(alias, name) ==
    QualifiedNameReference(<<quote_identifier(alias), quote_identifier(name)>>)

\* The key predicate of a key-pair list in SQL: the conjunction, nested to the
\* left, of "left".l = "right".r over the pairs in order; the literal true for
\* no pair.
RECURSIVE KeyPredicate(_)
KeyPredicate(pairs) ==
    LET n == Len(pairs)
        last == [node |-> "ComparisonExpression", operator |-> "=",
                 left |-> ColumnReference("left", pairs[n][1]),
                 right |-> ColumnReference("right", pairs[n][2])]
    IN  IF n = 0
        THEN [node |-> "BooleanLiteral", value |-> TRUE]
        ELSE IF n = 1
        THEN last
        ELSE [node |-> "LogicalBinaryExpression", operator |-> "AND",
              left |-> KeyPredicate(SubSeq(pairs, 1, n - 1)), right |-> last]

\* C16: a successful to_sql returns a subquery aliased "root" over a query whose
\* only from-relation is a join of the kind __join_type returns, of the base
\* frame's query aliased "left" and the other frame's query aliased "right", on
\* the key predicate; the program of to_pure names the same join kind for every
\* how that __join_type resolves.
C16_PlanStructure ==
    /\ (op = "to_sql" /\ result.kind = "ok") =>
        LET plan == result.value
            query == JoinQueryOf(plan)
            join == query.from[1]
        IN  /\ Len(plan.from) = 1
            /\ plan.from[1].node = "AliasedRelation"
            /\ plan.from[1].alias = quote_identifier("root")
            /\ Len(query.from) = 1
            /\ join.node = "Join"
            /\ join.type = join_type(self).value
            /\ join.left.relation = to_sql_query_object(base_frame)
            /\ join.left.alias = quote_identifier("left")
            /\ join.right.relation = to_sql_query_object(other_frame)
            /\ join.right.alias = quote_identifier("right")
            /\ \E inferred \in inferred_keys(self) :
                    join.criteria.expression
                        = KeyPredicate(derive_key_pairs(self, inferred).value)
    /\ (op = "to_pure" /\ result.kind = "ok" /\ join_type(self).kind = "ok") =>
        result.value.calls[Len(result.value.calls)].kind
            = "JoinKind." \o join_type(self).value

\* C16 witness: a left_outer plan joining on two key pairs.
C16_Witness ==
    /\ op = "to_sql"
    /\ result.kind = "ok"
    /\ how = <<"l", "e", "f", "t", "_", "o", "u", "t", "e", "r">>
    /\ left_on = List(<<"a", "b">>)
    /\ right_on = List(<<"a", "a">>)
    /\ JoinQueryOf(result.value).from[1].type = "LEFT"
    /\ JoinQueryOf(result.value).from[1].criteria.expression.operator = "AND"

\* The eight spellings of how.
RecognizedSpellings ==
    {<<"i", "n", "n", "e", "r">>,
     <<"l", "e", "f", "t">>,
     <<"l", "e", "f", "t", "_", "o", "u", "t", "e", "r">>,
     <<"r", "i", "g", "h", "t">>,
     <<"r", "i", "g", "h", "t", "_", "o", "u", "t", "e", "r">>,
     <<"o", "u", "t", "e", "r">>,
     <<"f", "u", "l", "l">>,
     <<"f", "u", "l", "l", "_", "o", "u", "t", "e", "r">>}

\* how is one of them, in any case.
HowRecognized == \E spelling \in RecognizedSpellings : Spells(how, spelling)

UnsupportedHowError == Raise("ValueError", "Unsupported merge how - " \o str(how))

\* What validate has to answer for the merge function as it is: the error of
\* the first failing check in the order suffix shape, key resolution, join
\* kind; True when none fails.
ValidateOutcomes ==
    IF ~SuffixShapeOk
    THEN {SuffixShapeError}
    ELSE IF ~KeysResolve
    THEN {derive_key_pairs(self, inferred) : inferred \in inferred_keys(self)}
    ELSE IF ~HowRecognized
    THEN {UnsupportedHowError}
    ELSE {Ok(TRUE)}

\* C17: a call of validate answers True exactly when suffixes is a tuple of
\* length 2, the keys resolve and how is recognized, and else raises the error
\* of the first failing check in that order; what it returns is True or an
\* error, never a plan or a program, and it changes no field.
C17_ValidatePreflight ==
    [][op' = "validate" => (result' \in ValidateOutcomes /\ UNCHANGED fields)]_vars

\* C17 witness: the keys conflict and how is unknown; validate has raised the
\* error of the keys.
C17_Witness ==
    /\ op = "validate"
    /\ SuffixShapeOk
    /\ how = <<"c", "r", "o", "s", "s">>
    /\ OnWithLeftOrRight
    /\ result = ConflictingKeysError

\* The operations of the merge compiler.
CompilerOps == {"validate", "calculate_columns", "to_sql", "to_pure"}

\* What an operation computes from the fields of the merge function alone: what
\* it returns when called first on a fresh object.
FreshResult(operation) ==
    CASE operation = "validate" -> validate(self, set_order)
      [] operation = "calculate_columns" -> calculate_columns(self, set_order)
      [] operation = "to_sql" -> to_sql(self, set_order)
      [] operation = "to_pure" -> to_pure(self, set_order)

\* on, left_on or right_on is given.
ExplicitKeys == on # None \/ left_on # None \/ right_on # None

\* C18: for a merge function with explicit on or left_on/right_on, every call
\* of validate, calculate_columns, to_sql or to_pure, after whatever calls came
\* before it (failed ones included), returns or raises what the operation
\* returns or raises on a fresh object.
C18_Stateless ==
    [][(ExplicitKeys /\ op' \in CompilerOps) => result' = FreshResult(op')]_vars

\* C18 witness: to_sql has failed with the duplicate-column error for explicit
\* left_on and right_on.
C18_Witness ==
    /\ ExplicitKeys
    /\ left_on = Str("a")
    /\ right_on = Str("b")
    /\ op = "to_sql"
    /\ result = DuplicateColumnError

\* C19: no call of validate, calculate_columns, to_sql or to_pure, succeeding or
\* failing, changes the columns or the query object of either frame or any of
\* on, left_on, right_on, how, suffixes; the operands of the join in the plan of
\* to_sql are copies of the two frames' query objects.
C19_FramesReadOnly ==
    [][op' \in CompilerOps =>
        /\ columns(base_frame)' = columns(base_frame)
        /\ columns(other_frame)' = columns(other_frame)
        /\ to_sql_query_object(base_frame)' = to_sql_query_object(base_frame)
        /\ to_sql_query_object(other_frame)' = to_sql_query_object(other_frame)
        /\ UNCHANGED <<on, left_on, right_on, how, suffixes>>
        /\ (op' = "to_sql" /\ result'.kind = "ok") =>
            /\ JoinQueryOf(result'.value).from[1].left.relation
                    = copy_query(to_sql_query_object(base_frame))
            /\ JoinQueryOf(result'.value).from[1].right.relation
                    = copy_query(to_sql_query_object(other_frame))]_vars

\* C19 witness: calculate_columns has suffixed a shared name in what it
\* returned, and the base frame still has the name as it was.
C19_Witness ==
    /\ op = "calculate_columns"
    /\ result.kind = "ok"
    /\ "a" \in Overlap
    /\ BaseNames = <<"a", "b">>
    /\ NamesOf(result.value)[1] = "a_x"

\* C20: every frame a merge function is built over, a merged frame included, has
\* pairwise distinct column names, and so has what a successful
\* calculate_columns returns after any chain of merges.
C20_MergesCompose ==
    /\ Distinct(BaseNames)
    /\ Distinct(OtherNames)
    /\ (op = "calculate_columns" /\ result.kind = "ok") => Distinct(NamesOf(result.value))

\* C20 witness: a merge over a merged frame has succeeded, suffixing the names
\* it shares with the other frame.
C20_Witness ==
    /\ base_frame.table = "merge"
    /\ op = "calculate_columns"
    /\ result.kind = "ok"
    /\ Overlap # {}
    /\ Len(result.value) = Len(BaseNames) + Len(OtherNames)
    /\ Len(result.value) >= 4

\* The error a merge of a frame with itself is to raise.
SelfMergeError == Raise("NotImplementedError", "Merging the same TdsFrame is not supported yet")

\* C21: a merge of a frame with itself (the other frame is the very object the
\* base frame is) is refused with the unsupported error, whatever the keys, how
\* and suffixes: no call of validate, to_sql or to_pure on such a merge function
\* gives anything but that error, so no plan and no program is built for it.
C21_SelfMergeRejected ==
    (other_is_base /\ op \in {"validate", "to_sql", "to_pure"}) => result = SelfMergeError

\* The equality left[l] == right[r] of a key pair.
PairEquality(pair) ==
    [node |-> "==",
     left |-> [node |-> "column", row |-> "left", name |-> pair[1]],
     right |-> [node |-> "column", row |-> "right", name |-> pair[2]]]

\* The conjunction of the equalities of the pairs, in their order, nested to
\* the left; the literal true for no pair.
RECURSIVE ExpectedCondition(_)
ExpectedCondition(pairs) ==
    LET n == Len(pairs)
    IN  IF n = 0
        THEN [node |-> "literal", value |-> TRUE]
        ELSE IF n = 1
        THEN PairEquality(pairs[1])
        ELSE [node |-> "&",
              left |-> ExpectedCondition(SubSeq(pairs, 1, n - 1)),
              right |-> PairEquality(pairs[n])]

\* The number of equalities of a predicate.
RECURSIVE EqualityCount(_)
EqualityCount(expr) ==
    CASE expr.node = "==" -> 1
      [] expr.node = "&" -> EqualityCount(expr.left) + EqualityCount(expr.right)
      [] OTHER -> 0

\* C22: a successful __build_condition returns the literal true for an empty
\* key-pair list and else the conjunction, nested to the left and in key-pair
\* order, of one equality left[l] == right[r] per key pair, repeated pairs
\* included.
C22_PredicateShape ==
    (op = "build_condition" /\ result.kind = "ok") =>
        LET pairs == derive_key_pairs(self, set_order).value
        IN  /\ result.value = ExpectedCondition(pairs)
            /\ EqualityCount(result.value) = Len(pairs)

\* C22 witness: three key pairs, one of them twice; the predicate nests the
\* conjunction of the first two equalities to the left of the third.
C22_Witness ==
    /\ op = "build_condition"
    /\ result.kind = "ok"
    /\ left_on = List(<<"a", "b", "a">>)
    /\ right_on = List(<<"a", "a_x", "a">>)
    /\ result.value.node = "&"
    /\ result.value.left.node = "&"
    /\ result.value.left.right = PairEquality(<<"b", "a_x">>)
    /\ result.value.right = PairEquality(<<"a", "a">>)
    /\ EqualityCount(result.value) = 3

\* The positions of the output columns named name.
PositionsOf(cols, name) == {i \in DOMAIN cols : cols[i].name = name}

\* C23: in what a successful calculate_columns returns, a name shared by the
\* frames that is a same-named key is the name of exactly one column, the base
\* frame's; a shared name n that is none appears as n + suffixes[0] for the base
\* frame's column and as n + suffixes[1] for the other frame's, and as nothing
\* else, also when n is a key on one side only or paired with another name; the
\* columns are |base| + |other| - |same-named keys| in number.
C23_SharedNameMultiplicity ==
    (op = "calculate_columns" /\ result.kind = "ok") =>
        LET out == result.value
            nb == Len(base_frame.cols)
        IN  /\ Len(out) = nb + Len(other_frame.cols) - Cardinality(SameNamedKeys)
            /\ \A n \in CommonNames :
                IF n \in SameNamedKeys
                THEN \E i \in 1..nb :
                        /\ PositionsOf(out, n) = {i}
                        /\ out[i] = base_frame.cols[i]
                ELSE \E i \in 1..nb, j \in (nb + 1)..Len(out) :
                        /\ BaseNames[i] = n
                        /\ out[i] = TdsColumn(n \o suffixes.items[1], base_frame.cols[i].type)
                        /\ OtherKept[j - nb].name = n
                        /\ out[j] = TdsColumn(n \o suffixes.items[2], OtherKept[j - nb].type)
                        /\ PositionsOf(out, n \o suffixes.items[1]) = {i}
                        /\ PositionsOf(out, n \o suffixes.items[2]) = {j}

\* C23 witness: "a" is a left key and "b" a right key, both names are shared and
\* neither is a same-named key: each appears twice, suffixed.
C23_Witness ==
    /\ op = "calculate_columns"
    /\ result.kind = "ok"
    /\ left_on = Str("a")
    /\ right_on = Str("b")
    /\ BaseNames = <<"a", "b">>
    /\ NamesOf(result.value) = <<"a_x", "b_x", "b_y", "a_y">>

\* C24: what validate answers is decided by the shape of suffixes, the key
\* resolution and how alone: it never raises the duplicate-column error, and it
\* answers True also when the composed names collide; the duplicate-column
\* error is raised by calculate_columns and to_sql only.
C24_ValidateIgnoresDuplicates ==
    /\ op = "validate" =>
        /\ result \in ValidateOutcomes
        /\ (SuffixShapeOk /\ KeysResolve /\ HowRecognized) => result = Ok(TRUE)
    /\ result = DuplicateColumnError => op \in {"calculate_columns", "to_sql"}

\* C24 witness: validate has answered True for equal suffixes and a shared
\* column that is no key, for which calculate_columns and to_sql raise the
\* duplicate-column error.
C24_Witness ==
    /\ op = "validate"
    /\ result = Ok(TRUE)
    /\ suffixes = Tuple(<<"_x", "_x">>)
    /\ Overlap # {}
    /\ calculate_columns(self, set_order) = DuplicateColumnError
    /\ to_sql(self, set_order) = DuplicateColumnError

\* The column names with every shared name suffixed: the base names with
\* suffixes[0], then the other names with suffixes[1].
AllSharedSuffixed ==
    [i \in DOMAIN BaseNames |->
        IF BaseNames[i] \in CommonNames THEN BaseNames[i] \o suffixes.items[1] ELSE BaseNames[i]]
    \o [i \in DOMAIN OtherNames |->
        IF OtherNames[i] \in CommonNames THEN OtherNames[i] \o suffixes.items[2] ELSE OtherNames[i]]

\* C25: on given as the empty list (alone) resolves to no key pair and raises
\* nothing, the predicate is the literal true and a successful
\* calculate_columns suffixes every shared name on both sides; left_on and
\* right_on both given as the empty list resolve as no keys given do, to the
\* pairs (k, k) of the common names.
C25_EmptyKeyLists ==
    /\ (on = List(<<>>) /\ left_on = None /\ right_on = None) =>
        /\ op = "derive_key_pairs" => result = Ok(<<>>)
        /\ op = "build_condition" => result = Ok([node |-> "literal", value |-> TRUE])
        /\ (op = "calculate_columns" /\ result.kind = "ok") =>
                NamesOf(result.value) = AllSharedSuffixed
    /\ (on = None /\ left_on = List(<<>>) /\ right_on = List(<<>>)
            /\ op = "derive_key_pairs") =>
        /\ result = Ok([i \in DOMAIN set_order |-> <<set_order[i], set_order[i]>>])
        /\ Range(set_order) = CommonNames

\* C25 witness: on is the empty list and the frames share both their names;
\* calculate_columns has suffixed each on both sides.
C25_Witness ==
    /\ on = List(<<>>)
    /\ left_on = None
    /\ right_on = None
    /\ op = "calculate_columns"
    /\ result.kind = "ok"
    /\ BaseNames = <<"a", "b">>
    /\ NamesOf(result.value) = <<"a_x", "b_x", "b_y", "a_y">>

====
